---- MODULE Spec2Model ----
(***************************************************************************)
(* The locale resolver of src/utils/command_tree.py (JDCommandTranslator): *)
(* the class-level file index LOCALE_TO_FILE, the per-instance document    *)
(* cache cached_locales, load / unload / get_locale / get_command, the     *)
(* translate dispatch and translate_content.                               *)
(*                                                                         *)
(* Python values.  A str is a sequence of one-character strings, so that   *)
(* split, startswith, lower, int, str and format are computed on the       *)
(* characters.  None is the one-element sequence <<"None">>, which is no   *)
(* str.  A dict is a function on its keys, a list is a sequence.           *)
(* Every coroutine of the class runs to completion without yielding to the *)
(* event loop (open/read are synchronous, and awaiting a coroutine that    *)
(* never suspends does not suspend), so each call is one atomic step.      *)
(***************************************************************************)
EXTENDS Integers, Sequences, FiniteSets, TLC

VARIABLES
    dir,              \* the files os.listdir(LOCALS_PATH) returns
    LOCALE_TO_FILE,   \* class attribute, shared by every translator
    cached_locales,   \* cached_locales[t]: the instance attribute of t
    cycleReads,       \* history: cycleReads[t][L], reads of L's file by t since t's last unload
    loadSnap,         \* history: loadSnap[t], t's cache as its first successful load left it
    lastUnload,       \* history: who unloaded last, what it knew, whether load() was called since
    ret,              \* the last call: operation, receiver, arguments, outcome
    input             \* the arguments the translate calls of this run are made with

vars == <<dir, LOCALE_TO_FILE, cached_locales, cycleReads, loadSnap, lastUnload, ret, input>>

storeVars == <<LOCALE_TO_FILE, cached_locales, cycleReads>>
histVars == <<loadSnap, lastUnload>>

-----------------------------------------------------------------------------
(* Bounds *)

MaxReads == 2
MaxIndex == 2

\* two instances of the class: enough for the class attribute to be shared
Translators == {"t1", "t2"}

-----------------------------------------------------------------------------
(* Python values and str operations *)

None == <<"None">>

Digits == <<"0", "1", "2", "3", "4", "5", "6", "7", "8", "9">>
UpperCase == <<"A","B","C","D","E","F","G","H","I","J","K","L","M",
               "N","O","P","Q","R","S","T","U","V","W","X","Y","Z">>
LowerCase == <<"a","b","c","d","e","f","g","h","i","j","k","l","m",
               "n","o","p","q","r","s","t","u","v","w","x","y","z">>

Range(s) == {s[i] : i \in DOMAIN s}

\* a return value that is not None, a returned None, a raised exception
\* (site: the source line that raises)
Return(v) == [kind |-> "return", val |-> v, exc |-> "", site |-> 0]
ReturnNone == [kind |-> "none", val |-> None, exc |-> "", site |-> 0]
Raise(e, line) == [kind |-> "raise", val |-> None, exc |-> e, site |-> line]

\* wraps an Optional[str]
ReturnOpt(v) == IF v = None THEN ReturnNone ELSE Return(v)

\* bool(v) of an Optional[str]
Truthy(v) == v # None /\ v # <<>>

\* d.get(k) of a dict with str | None values
Get(d, k) == IF k \in DOMAIN d THEN d[k] ELSE None

StartsWith(s, p) == Len(s) >= Len(p) /\ SubSeq(s, 1, Len(p)) = p
EndsWith(s, p) == Len(s) >= Len(p) /\ SubSeq(s, Len(s) - Len(p) + 1, Len(s)) = p

\* s.split(c) for a one-character separator: always at least one segment
Split(s, c) ==
    LET RECURSIVE go(_, _, _)
        go(i, cur, acc) ==
            IF i > Len(s) THEN Append(acc, cur)
            ELSE IF s[i] = c THEN go(i + 1, <<>>, Append(acc, cur))
            ELSE go(i + 1, Append(cur, s[i]), acc)
    IN go(1, <<>>, <<>>)

LowerChar(c) ==
    IF c \in Range(UpperCase)
    THEN LowerCase[CHOOSE k \in DOMAIN UpperCase : UpperCase[k] = c]
    ELSE c

\* s.lower()
Lower(s) == [i \in DOMAIN s |-> LowerChar(s[i])]

DigitVal(c) == (CHOOSE k \in DOMAIN Digits : Digits[k] = c) - 1

\* whether int(s) succeeds: decimal digits with an optional sign
IntOk(s) ==
    LET body == IF Len(s) > 0 /\ s[1] \in {"-", "+"} THEN Tail(s) ELSE s
    IN Len(body) > 0 /\ \A i \in DOMAIN body : body[i] \in Range(Digits)

\* int(s), for IntOk(s)
IntOf(s) ==
    LET neg == Len(s) > 0 /\ s[1] = "-"
        body == IF Len(s) > 0 /\ s[1] \in {"-", "+"} THEN Tail(s) ELSE s
        RECURSIVE val(_, _)
        val(i, acc) == IF i > Len(body) THEN acc
                       ELSE val(i + 1, 10 * acc + DigitVal(body[i]))
    IN IF neg THEN 0 - val(1, 0) ELSE val(1, 0)

\* str(n) of an int n >= 0, as an f-string formats {idx}
StrOf(n) ==
    LET RECURSIVE digits(_)
        digits(k) == IF k < 10 THEN <<Digits[k + 1]>>
                     ELSE Append(digits(k \div 10), Digits[(k % 10) + 1])
    IN digits(n)

\* list[i] with Python's negative indices; InRange says whether it raises IndexError
InRange(list, i) == 0 - Len(list) <= i /\ i < Len(list)
Item(list, i) == IF i >= 0 THEN list[i + 1] ELSE list[Len(list) + i + 1]

-----------------------------------------------------------------------------
(* The locale directory: file names, locale identifiers, file contents *)

enUS == <<"e", "n", "-", "U", "S">>
fr == <<"f", "r">>
de == <<"d", "e">>

\* the values of discord.Locale that discord.Locale(stem) accepts (those used here)
LocaleValues == {enUS, fr, de}

f_enUS == <<"e", "n", "-", "U", "S", ".", "j", "s", "o", "n">>
f_fr == <<"f", "r", ".", "j", "s", "o", "n">>
f_de == <<"d", "e", ".", "j", "s", "o", "n">>
f_xx == <<"x", "x", ".", "j", "s", "o", "n">>
f_notes == <<"n", "o", "t", "e", "s", ".", "t", "x", "t">>

dotJson == <<".", "j", "s", "o", "n">>

\* command qualified names and option names
ping == <<"p", "i", "n", "g">>
stats == <<"s", "t", "a", "t", "s">>
info == <<"i", "n", "f", "o">>
ghost == <<"g", "h", "o", "s", "t">>
mode == <<"m", "o", "d", "e">>
quiet == <<"q", "u", "i", "e", "t">>
nope == <<"n", "o", "p", "e">>

\* the documents of en-US.json: LocaleCommand dicts (lines 21-48)
PingDoc ==
    [name |-> <<"P", "i", "n", "g", "!">>,
     description |-> <<"L", "a", "t">>,
     options |-> (mode :> [name |-> <<"M", "o", "d", "e">>, description |-> <<"H", "o", "w">>,
                           choices |-> <<<<"F", "a", "s", "t">>, <<"S", "l", "o", "w">>, <<"O", "f", "f">>>>])
                 @@ (quiet :> [name |-> <<"Q", "u", "i", "e", "t">>]),
     embeds |-> << [title |-> <<"T", "0">>, description |-> <<"D", "0">>,
                    footer |-> [text |-> <<"F", "0">>], author |-> [name |-> <<"A", "0">>],
                    fields |-> << [name |-> <<"N", "0">>, value |-> <<"V", "0">>],
                                  [name |-> <<"N", "1">>],
                                  <<>> >>],
                   <<>>,
                   [title |-> <<"T", "2">>, footer |-> <<>>] >>,
     content |-> <<"H", "i", " ", "{", "u", "}">>]

StatsDoc ==
    [name |-> <<"S", "t", "a", "t", "s">>,
     description |-> None,
     options |-> (mode :> [name |-> None, choices |-> <<>>]),
     embeds |-> <<>>,
     content |-> <<>>]

InfoDoc == [name |-> <<"I", "n", "f", "o">>]

PingDocFr == [name |-> <<"P", "i", "n", "g", "F">>, description |-> <<"L", "a", "t", "F">>, content |-> <<"S", "a", "l", "u", "t">>]

EnUSData == (ping :> PingDoc) @@ (stats :> StatsDoc) @@ (info :> InfoDoc)
FrData == (ping :> PingDocFr)

\* whether json.loads accepts the file's text
Parses(file) == file # f_de

\* json.loads(f.read()) of a file that parses
FileContent(file) == IF file = f_enUS THEN EnUSData ELSE FrData

\* the directory listings considered: all files good, one file with a stem that
\* is no locale, one file that is not JSON beside one that is no .json file
GoodDirectory == {f_enUS, f_fr}
Directories == { GoodDirectory, {f_enUS, f_fr, f_xx}, {f_enUS, f_de, f_notes} }

\* the orders in which os.listdir may return the files
Orderings(S) ==
    {s \in [1..Cardinality(S) -> S] : \A x \in S : \E i \in DOMAIN s : s[i] = x}

\* the locales that have a .json file in the directory
FileLocales(d) == {Split(f, ".")[1] : f \in {g \in d : EndsWith(g, dotJson)}}

-----------------------------------------------------------------------------
(* The store: get_locale, get_command, load, unload.  An operator takes the  *)
(* receiver's cache c, the shared index f and the receiver's read counts r   *)
(* and yields them as the call leaves them, with the call's outcome.         *)

NoReads == [L \in LocaleValues |-> 0]

Out(c, f, r, res) == [cache |-> c, files |-> f, reads |-> r, res |-> res]

\* get_locale whose cache lookup never hits (a plausible slip: the early return lost)
get_locale_no_hit(c, f, r, locale) ==
    IF locale \notin DOMAIN f
    THEN Out(c, f, r, Raise("KeyError", 88))
    ELSE LET r2 == [r EXCEPT ![locale] = @ + 1]
             data == [gen |-> r2[locale], doc |-> FileContent(f[locale])]
         IN IF ~Parses(f[locale])
            THEN Out(c, f, r2, Raise("JSONDecodeError", 90))
            ELSE Out((locale :> data) @@ c, f, r2, Return(data))

\* get_locale (lines 84-92).  The parsed mapping is a new object on each read:
\* gen tells the objects of one locale apart.
get_locale(c, f, r, locale) ==
    IF locale \in DOMAIN c
    THEN Out(c, f, r, Return(c[locale]))
    ELSE IF locale \notin DOMAIN f
    THEN Out(c, f, r, Raise("KeyError", 88))
    ELSE LET r2 == [r EXCEPT ![locale] = @ + 1]
             data == [gen |-> r2[locale], doc |-> FileContent(f[locale])]
         IN IF ~Parses(f[locale])
            THEN Out(c, f, r2, Raise("JSONDecodeError", 90))
            ELSE Out((locale :> data) @@ c, f, r2, Return(data))

\* dict.get(command_name) on what get_locale gave (line 95)
command_of(got, command_name) ==
    IF got.res.kind = "raise" THEN got
    ELSE IF command_name \in DOMAIN got.res.val.doc
    THEN Out(got.cache, got.files, got.reads, Return(got.res.val.doc[command_name]))
    ELSE Out(got.cache, got.files, got.reads, ReturnNone)

\* get_command (lines 94-95): the locale's mapping, then dict.get
get_command(c, f, r, locale, command_name) ==
    command_of(get_locale(c, f, r, locale), command_name)

\* load (lines 69-78) over the listing `order`, from its i-th file on; load_next
\* goes on after the get_locale of line 78, which may have raised
RECURSIVE load_from(_, _, _, _, _)
load_next(order, i, got) ==
    IF got.res.kind = "raise" THEN got
    ELSE load_from(order, i + 1, got.cache, got.files, got.reads)

load_from(order, i, c, f, r) ==
    IF i > Len(order) THEN Out(c, f, r, ReturnNone)
    ELSE IF ~EndsWith(order[i], dotJson) THEN load_from(order, i + 1, c, f, r)
    ELSE IF Split(order[i], ".")[1] \notin LocaleValues
    THEN Out(c, f, r, Raise("ValueError", 75))
    ELSE load_next(order, i,
             get_locale(c, (Split(order[i], ".")[1] :> order[i]) @@ f, r,
                        Split(order[i], ".")[1]))

load(order, c, f, r) == load_from(order, 1, c, f, r)

\* unload that forgets the index but keeps the cache (a plausible slip)
unload_keeps_cache(c, f, r) == Out(c, <<>>, r, ReturnNone)

\* unload (lines 80-82)
unload(c, f, r) == Out(<<>>, <<>>, r, ReturnNone)

\* the number of file reads a call made
NRead(r, r2) ==
    LET RECURSIVE sum(_)
        sum(S) == IF S = {} THEN 0
                  ELSE LET L == CHOOSE x \in S : TRUE
                       IN (r2[L] - r[L]) + sum(S \ {L})
    IN sum(LocaleValues)

WithinReads(r) == \A L \in LocaleValues : r[L] <= MaxReads

Call(op, t, args, out) ==
    [op |-> op, self |-> t, args |-> args, res |-> out.res,
     nread |-> NRead(cycleReads[t], out.reads)]

NoInput == [kind |-> "none"]

NoSnap == [set |-> FALSE, cache |-> <<>>]

\* phase "unloaded": `who` has unloaded and load() has not been called since;
\* "reloaded": a load() has completed since and nobody has unloaded after it
NoUnload == [who |-> "nobody", phase |-> "none", knew |-> {}]

-----------------------------------------------------------------------------
(* The state after construction (lines 61-67), and the calls *)

Init ==
    /\ dir \in Directories
    /\ LOCALE_TO_FILE = <<>>
    /\ cached_locales = [t \in Translators |-> <<>>]
    /\ cycleReads = [t \in Translators |-> NoReads]
    /\ loadSnap = [t \in Translators |-> NoSnap]
    /\ lastUnload = NoUnload
    /\ ret = [op |-> "init", self |-> "nobody", args |-> <<>>, res |-> ReturnNone, nread |-> 0]
    /\ input = NoInput

\* what a call of t leaves in the store
Store(t, out) ==
    /\ WithinReads(out.reads)
    /\ LOCALE_TO_FILE' = out.files
    /\ cached_locales' = [cached_locales EXCEPT ![t] = out.cache]
    /\ cycleReads' = [cycleReads EXCEPT ![t] = out.reads]

LoadStep(t, out) ==
    /\ Store(t, out)
    /\ loadSnap' = [loadSnap EXCEPT ![t] =
           IF out.res.kind # "raise" /\ ~loadSnap[t].set
           THEN [set |-> TRUE, cache |-> out.cache] ELSE @]
    /\ lastUnload' =
           IF lastUnload.phase = "unloaded"
           THEN (IF out.res.kind # "raise" THEN [lastUnload EXCEPT !.phase = "reloaded"]
                 ELSE NoUnload)
           ELSE lastUnload
    /\ UNCHANGED <<dir, input>>
    /\ ret' = Call("load", t, <<>>, out)

Load(t) ==
    \E order \in Orderings(dir) :
        LoadStep(t, load(order, cached_locales[t], LOCALE_TO_FILE, cycleReads[t]))

UnloadStep(t, out) ==
    /\ LOCALE_TO_FILE' = out.files
    /\ cached_locales' = [cached_locales EXCEPT ![t] = out.cache]
    /\ cycleReads' = [cycleReads EXCEPT ![t] = NoReads]
    /\ loadSnap' = [loadSnap EXCEPT ![t] = NoSnap]
    /\ lastUnload' = [who |-> t, phase |-> "unloaded",
                      knew |-> DOMAIN LOCALE_TO_FILE \cup DOMAIN cached_locales[t]]
    /\ UNCHANGED <<dir, input>>
    /\ ret' = [op |-> "unload", self |-> t, args |-> <<>>, res |-> out.res, nread |-> 0]

Unload(t) == UnloadStep(t, unload(cached_locales[t], LOCALE_TO_FILE, cycleReads[t]))

CallStep(op, t, args, out) ==
    /\ Store(t, out)
    /\ UNCHANGED <<dir, input, histVars>>
    /\ ret' = Call(op, t, args, out)

GetLocale(t, locale) ==
    CallStep("get_locale", t, [locale |-> locale],
             get_locale(cached_locales[t], LOCALE_TO_FILE, cycleReads[t], locale))

GetCommand(t, locale, command_name) ==
    CallStep("get_command", t, [locale |-> locale, command_name |-> command_name],
             get_command(cached_locales[t], LOCALE_TO_FILE, cycleReads[t], locale,
                         command_name))

\* a command the locale files document, and one they do not
CommandNames == {ping, ghost}

Next ==
    \/ \E t \in Translators : Load(t)
    \/ \E t \in Translators : Unload(t)
    \/ \E t \in Translators, L \in LocaleValues : GetLocale(t, L)
    \/ \E t \in Translators, L \in LocaleValues, n \in CommandNames : GetCommand(t, L, n)

Spec == Init /\ [][Next]_vars

-----------------------------------------------------------------------------
(* Claims about the store, checked under Spec *)

Registered == DOMAIN LOCALE_TO_FILE

\* C1: once a load() of translator t has succeeded and until t unloads, every
\* registered locale is in t's cache as the very object that load left there,
\* every get_locale(L) of t for a registered L returns that object without
\* reading a file, and no locale file has been read more than once by t in the
\* cycle, whatever further load() calls and other translators do.
C1_CachedOncePerLoadCycle ==
    \A t \in Translators :
        loadSnap[t].set =>
            /\ \A L \in Registered :
                   /\ L \in DOMAIN cached_locales[t]
                   /\ L \in DOMAIN loadSnap[t].cache
                   /\ cached_locales[t][L] = loadSnap[t].cache[L]
            /\ \A L \in LocaleValues : cycleReads[t][L] <= 1
            /\ (ret.op = "get_locale" /\ ret.self = t /\ ret.args.locale \in Registered) =>
                   /\ ret.res.kind = "return"
                   /\ ret.res.val = loadSnap[t].cache[ret.args.locale]
                   /\ ret.nread = 0

\* a get_locale of a registered locale answered from the cache of a loaded translator
C1_Witness ==
    /\ ret.op = "get_locale"
    /\ loadSnap[ret.self].set
    /\ ret.args.locale \in Registered
    /\ ret.res.kind = "return"
    /\ cycleReads[ret.self][ret.args.locale] = 1

\* C2: after unload() of translator t and until load() is called again, t's cache
\* and the file index are empty and get_locale(L) of t raises KeyError without
\* reading a file, for every locale L that t knew before; once a load() has
\* completed after it, get_locale(L) of t returns the parsed file of L again for
\* every locale file of the directory.
C2_UnloadForgets ==
    /\ lastUnload.phase = "unloaded" =>
           /\ DOMAIN cached_locales[lastUnload.who] = {}
           /\ Registered = {}
    /\ (ret.op = "get_locale" /\ ret.self = lastUnload.who) =>
           /\ (lastUnload.phase = "unloaded" /\ ret.args.locale \in lastUnload.knew) =>
                  /\ ret.res.kind = "raise"
                  /\ ret.res.exc = "KeyError"
                  /\ ret.nread = 0
           /\ (lastUnload.phase = "reloaded" /\ ret.args.locale \in FileLocales(dir)) =>
                  /\ ret.res.kind = "return"
                  /\ ret.res.val.doc = FileContent(ret.args.locale \o dotJson)

\* get_locale succeeding again, after unload and load, for a locale known before
C2_Witness ==
    /\ ret.op = "get_locale"
    /\ lastUnload.phase = "reloaded"
    /\ ret.self = lastUnload.who
    /\ ret.args.locale \in lastUnload.knew
    /\ ret.res.kind = "return"

\* get_locale failing after unload for a locale known before
C2_WitnessFails ==
    /\ ret.op = "get_locale"
    /\ lastUnload.phase = "unloaded"
    /\ ret.self = lastUnload.who
    /\ ret.args.locale \in lastUnload.knew
    /\ ret.res.kind = "raise"

-----------------------------------------------------------------------------
(* translate (lines 130-261) *)

s_embed == <<"e", "m", "b", "e", "d">>
s_content == <<"c", "o", "n", "t", "e", "n", "t">>
s_title == <<"t", "i", "t", "l", "e">>
s_description == <<"d", "e", "s", "c", "r", "i", "p", "t", "i", "o", "n">>
s_footer == <<"f", "o", "o", "t", "e", "r">>
s_author == <<"a", "u", "t", "h", "o", "r">>
s_fields == <<"f", "i", "e", "l", "d", "s">>
s_name == <<"n", "a", "m", "e">>
s_value == <<"v", "a", "l", "u", "e">>

\* d.get(k, {}) and d.get(k, [{}]) of a dict whose value at k is a dict or a list
GetOr(d, k, default) == IF k \in DOMAIN d THEN d[k] ELSE default

\* the name the context data yields (lines 141-145): a Command, ContextMenu or
\* Group gives its qualified_name, a Parameter its command's; anything else none
ContextName(data) ==
    IF data.kind \in {"Command", "ContextMenu", "Group", "Parameter"}
    THEN data.qualified_name
    ELSE None

\* command_name as line 147 leaves it, preferring the context-derived name
\* (a plausible slip: the operands of `or` swapped)
CommandName_context_first(string, context) ==
    IF Truthy(ContextName(context.data)) THEN ContextName(context.data)
    ELSE Get(string.extras, "command")

\* command_name as line 147 leaves it
CommandName(string, context) ==
    IF Truthy(Get(string.extras, "command")) THEN string.extras["command"]
    ELSE ContextName(context.data)

\* the `fields` branch (lines 236-255)
EmbedField(embed, fields_extra) ==
    IF Len(fields_extra) = 0 THEN Raise("ValueError", 237)
    ELSE IF Len(fields_extra) # 2 THEN Raise("ValueError", 242)
    ELSE IF ~IntOk(fields_extra[1]) THEN Raise("ValueError", 244)
    ELSE LET field_idx == IntOf(fields_extra[1])
             field_type == fields_extra[2]
             fields == GetOr(embed, "fields", << <<>> >>)
         IN IF ~InRange(fields, field_idx) THEN Raise("IndexError", 246)
            ELSE LET field == Item(fields, field_idx)
                 IN IF DOMAIN field = {} THEN ReturnNone
                    ELSE IF field_type = s_name THEN ReturnOpt(Get(field, "name"))
                    ELSE IF field_type = s_value THEN ReturnOpt(Get(field, "value"))
                    ELSE Raise("ValueError", 255)

\* the embed key branch with the field read before the index is parsed and the
\* embed is looked up (a plausible slip: `fields` and the index ignored)
EmbedLookup_title_only(command, key) ==
    LET parts == Split(key, ":")
    IN IF Len(parts) < 3 THEN Raise("ValueError", 219)
       ELSE LET embeds == GetOr(command, "embeds", << <<>> >>)
            IN IF ~InRange(embeds, 0) THEN Raise("IndexError", 223)
               ELSE ReturnOpt(Get(Item(embeds, 0), "title"))

\* the embed key branch (lines 215-258)
EmbedLookup(command, key) ==
    LET parts == Split(key, ":")
    IN IF Len(parts) < 3 THEN Raise("ValueError", 219)
       ELSE IF ~IntOk(parts[2]) THEN Raise("ValueError", 221)
       ELSE LET idx == IntOf(parts[2])
                field == Lower(parts[3])
                fields_extra == SubSeq(parts, 4, Len(parts))
                embeds == GetOr(command, "embeds", << <<>> >>)
            IN IF ~InRange(embeds, idx) THEN Raise("IndexError", 223)
               ELSE LET embed == Item(embeds, idx)
                    IN IF DOMAIN embed = {} THEN ReturnNone
                       ELSE IF field = s_title THEN ReturnOpt(Get(embed, "title"))
                       ELSE IF field = s_description THEN ReturnOpt(Get(embed, "description"))
                       ELSE IF field = s_footer
                       THEN ReturnOpt(Get(GetOr(embed, "footer", <<>>), "text"))
                       ELSE IF field = s_author
                       THEN ReturnOpt(Get(GetOr(embed, "author", <<>>), "name"))
                       ELSE IF field = s_fields THEN EmbedField(embed, fields_extra)
                       ELSE Raise("ValueError", 258)

\* the choice_name branch that takes index 0 for missing (a plausible slip:
\* `if not idx` for `if idx is None`)
ChoiceName_falsy_index(command, string) ==
    IF "index" \notin DOMAIN string.extras \/ string.extras["index"] = 0
    THEN Raise("ValueError", 198)
    ELSE IF ~Truthy(Get(string.extras, "option")) THEN Raise("ValueError", 202)
    ELSE LET idx == string.extras["index"]
             option == GetOr(GetOr(command, "options", <<>>), string.extras["option"], <<>>)
         IN IF "choices" \notin DOMAIN option \/ Len(option["choices"]) = 0 THEN ReturnNone
            ELSE IF ~InRange(option["choices"], idx) THEN Raise("IndexError", 208)
            ELSE Return(Item(option["choices"], idx))

\* the choice_name branch (lines 195-208)
ChoiceName(command, string) ==
    IF "index" \notin DOMAIN string.extras THEN Raise("ValueError", 198)
    ELSE IF ~Truthy(Get(string.extras, "option")) THEN Raise("ValueError", 202)
    ELSE LET idx == string.extras["index"]
             option == GetOr(GetOr(command, "options", <<>>), string.extras["option"], <<>>)
         IN IF "choices" \notin DOMAIN option \/ Len(option["choices"]) = 0 THEN ReturnNone
            ELSE IF ~InRange(option["choices"], idx) THEN Raise("IndexError", 208)
            ELSE Return(Item(option["choices"], idx))

\* the parameter branch (lines 182-193)
ParameterText(command, string, location) ==
    LET parameter == GetOr(GetOr(command, "options", <<>>), string.message, <<>>)
    IN IF DOMAIN parameter = {} THEN ReturnNone
       ELSE IF location = "parameter_name" THEN ReturnOpt(Get(parameter, "name"))
       ELSE ReturnOpt(Get(parameter, "description"))

\* the `other` branch (lines 210-261)
Other(command, string) ==
    LET key == IF Truthy(Get(string.extras, "key")) THEN string.extras["key"] ELSE <<>>
    IN IF key = <<>> THEN Raise("ValueError", 213)
       ELSE IF StartsWith(key, s_embed) THEN EmbedLookup(command, key)
       ELSE IF key = s_content THEN ReturnOpt(Get(command, "content"))
       ELSE ReturnNone

\* the dispatch with the options branch tested first (a plausible repair of
\* the shadowed parameter_name test)
Dispatch_options_first(command, string, location) ==
    IF location \in {"parameter_name", "parameter_description"}
    THEN ParameterText(command, string, location)
    ELSE IF location = "command_name" THEN ReturnOpt(Get(command, "name"))
    ELSE IF location \in {"command_description", "group_description"}
    THEN ReturnOpt(Get(command, "description"))
    ELSE IF location = "choice_name" THEN ChoiceName(command, string)
    ELSE IF location = "other" THEN Other(command, string)
    ELSE ReturnNone

\* the dispatch on context.location (lines 170-261): the first match wins, a
\* location no branch names falls off the end and returns None
Dispatch(command, string, location) ==
    IF location \in {"command_name", "parameter_name"}
    THEN ReturnOpt(Get(command, "name"))
    ELSE IF location \in {"command_description", "group_description"}
    THEN ReturnOpt(Get(command, "description"))
    ELSE IF location \in {"parameter_name", "parameter_description"}
    THEN ParameterText(command, string, location)
    ELSE IF location = "choice_name" THEN ChoiceName(command, string)
    ELSE IF location = "other" THEN Other(command, string)
    ELSE ReturnNone

TOut(c, f, r, res, looked) ==
    [cache |-> c, files |-> f, reads |-> r, res |-> res, looked |-> looked]

\* lines 167-261, on what get_command gave: an absent (or empty) document is
\* None, anything else is dispatched on the location
translate_command(got, string, context, command_name) ==
    IF got.res.kind = "raise"
    THEN TOut(got.cache, got.files, got.reads, got.res, command_name)
    ELSE IF got.res.kind = "none" \/ DOMAIN got.res.val = {}
    THEN TOut(got.cache, got.files, got.reads, ReturnNone, command_name)
    ELSE TOut(got.cache, got.files, got.reads,
              Dispatch(got.res.val, string, context.location), command_name)

\* lines 149-166 without the key test of lines 158-161 (the order the
\* algorithm of the specification states: a key is validated only in the dispatch)
translate_named_lookup_first(c, f, r, string, locale, context, command_name) ==
    IF ~Truthy(command_name) THEN TOut(c, f, r, Raise("ValueError", 150), None)
    ELSE translate_command(get_command(c, f, r, locale, command_name),
                           string, context, command_name)

\* lines 149-166, with the command name of line 147
translate_named(c, f, r, string, locale, context, command_name) ==
    IF ~Truthy(command_name) THEN TOut(c, f, r, Raise("ValueError", 150), None)
    ELSE IF context.location = "other" /\ ~Truthy(Get(string.extras, "key"))
    THEN TOut(c, f, r, Raise("ValueError", 161), None)
    ELSE translate_command(get_command(c, f, r, locale, command_name),
                           string, context, command_name)

\* translate (lines 130-261); looked: the name handed to get_command, None
\* when get_command is not reached
translate(c, f, r, string, locale, context) ==
    IF locale \notin DOMAIN f THEN TOut(c, f, r, ReturnNone, None)
    ELSE translate_named(c, f, r, string, locale, context, CommandName(string, context))

-----------------------------------------------------------------------------
(* translate_content (lines 123-128) and the keys of translate_embeds *)

\* the index of the first "}" of s from position i on, 0 when there is none
CloseAt(s, i) ==
    IF \E j \in i..Len(s) : s[j] = "}"
    THEN CHOOSE j \in i..Len(s) : s[j] = "}" /\ \A k \in i..(j - 1) : s[k] # "}"
    ELSE 0

\* s.format(**kw) for replacement fields that are plain names: "{{" and "}}"
\* are literal braces, an unmatched brace is a ValueError, "{}" an IndexError
\* (there are no positional arguments), an unknown name a KeyError
Format(s, kw) ==
    LET RECURSIVE go(_, _)
        go(i, acc) ==
            IF i > Len(s) THEN Return(acc)
            ELSE IF s[i] = "{"
            THEN IF i < Len(s) /\ s[i + 1] = "{" THEN go(i + 2, Append(acc, "{"))
                 ELSE IF CloseAt(s, i + 1) = 0 THEN Raise("ValueError", 126)
                 ELSE LET j == CloseAt(s, i + 1)
                          field == SubSeq(s, i + 1, j - 1)
                      IN IF field = <<>> THEN Raise("IndexError", 126)
                         ELSE IF field \notin DOMAIN kw THEN Raise("KeyError", 126)
                         ELSE go(j + 1, acc \o kw[field])
            ELSE IF s[i] = "}"
            THEN IF i < Len(s) /\ s[i + 1] = "}" THEN go(i + 2, Append(acc, "}"))
                 ELSE Raise("ValueError", 126)
            ELSE go(i + 1, Append(acc, s[i]))
    IN go(1, <<>>)

LocaleStr(message, extras) == [message |-> message, extras |-> extras]

\* Interaction.translate as translate_content and translate_embeds use it
\* (lines 104 and 124): the translator's translate for the interaction's
\* locale, at location `other`, with the given context data
InteractionTranslate(c, f, r, interaction, string, data) ==
    translate(c, f, r, string, interaction.locale, [location |-> "other", data |-> data])

\* lines 125-128 that format whenever a translation is found (a plausible
\* slip: the test of string_formats lost)
content_result_always_formats(translated, content, string_formats) ==
    IF translated.kind = "raise" THEN translated
    ELSE IF translated.kind = "return" /\ Truthy(translated.val)
    THEN Format(translated.val, string_formats)
    ELSE Return(content)

\* lines 125-128, on what interaction.translate gave
content_result(translated, content, string_formats) ==
    IF translated.kind = "raise" THEN translated
    ELSE IF translated.kind = "return" /\ Truthy(translated.val)
            /\ DOMAIN string_formats # {}
    THEN Format(translated.val, string_formats)
    ELSE IF translated.kind = "return" /\ Truthy(translated.val)
    THEN Return(translated.val)
    ELSE Return(content)

content_out(got, content, string_formats) ==
    [cache |-> got.cache, files |-> got.files, reads |-> got.reads,
     res |-> content_result(got.res, content, string_formats), translated |-> got.res]

\* translate_content (lines 123-128); translated: what interaction.translate gave
translate_content(c, f, r, interaction, content, string_formats) ==
    content_out(InteractionTranslate(c, f, r, interaction,
                    LocaleStr(content, "key" :> s_content), interaction.command),
                content, string_formats)

\* the keys translate_embeds builds (lines 109-116)
EmbedKey(idx, field) == s_embed \o <<":">> \o StrOf(idx) \o <<":">> \o field
FieldKey(idx, field_idx, field_type) ==
    s_embed \o <<":">> \o StrOf(idx) \o <<":">> \o s_fields \o <<":">>
        \o StrOf(field_idx) \o <<":">> \o field_type

-----------------------------------------------------------------------------
(* The calls of translate and translate_content that are tried *)

\* context.data: nothing, a Command, a ContextMenu, a Group, a Parameter (with
\* its command's qualified name), a Choice
NoData == [kind |-> "None", qualified_name |-> None]
Command(n) == [kind |-> "Command", qualified_name |-> n]
ContextMenu(n) == [kind |-> "ContextMenu", qualified_name |-> n]
Group(n) == [kind |-> "Group", qualified_name |-> n]
Parameter(n) == [kind |-> "Parameter", qualified_name |-> n]
ChoiceData == [kind |-> "Choice", qualified_name |-> None]

Datas == {NoData, Command(ping), ContextMenu(info), Group(stats), Parameter(ping), ChoiceData}

\* TranslationContextLocation
Locations == {"command_name", "command_description", "group_name", "group_description",
              "parameter_name", "parameter_description", "choice_name", "other"}

s_bogus == <<"b", "o", "g", "u", "s">>
s_Title == <<"T", "i", "t", "l", "e">>
s_misc == <<"m", "i", "s", "c">>
s_x == <<"x">>
s_text == <<"t", "e", "x", "t">>

Indexes == 0..MaxIndex
SimpleFields == {s_title, s_description, s_footer, s_author}
FieldTypes == {s_name, s_value}

\* the keys translate_embeds builds
SynthesizedKeys ==
    {EmbedKey(i, fld) : i \in Indexes, fld \in SimpleFields}
        \cup {FieldKey(i, j, ty) : i \in Indexes, j \in Indexes, ty \in FieldTypes}

\* embed:<i>, and embed alone: no field segment
NoFieldKeys == {s_embed} \cup {s_embed \o <<":">> \o StrOf(i) : i \in Indexes}

\* embed:<i>:fields, embed:<i>:fields:<j>, embed:<i>:fields:<j>:name:x
BadFieldsKeys ==
    {EmbedKey(i, s_fields) : i \in Indexes}
        \cup {EmbedKey(i, s_fields) \o <<":">> \o StrOf(j) : i \in Indexes, j \in Indexes}
        \cup {FieldKey(i, j, s_name) \o <<":">> \o s_x : i \in Indexes, j \in Indexes}

\* embed:<i>:bogus
BadFieldKeys == {EmbedKey(i, s_bogus) : i \in Indexes}

\* embed:<i>:fields:<j>:bogus
BadTypeKeys == {FieldKey(i, j, s_bogus) : i \in Indexes, j \in Indexes}

Keys ==
    SynthesizedKeys \cup NoFieldKeys \cup BadFieldsKeys \cup BadFieldKeys \cup BadTypeKeys
        \cup {EmbedKey(i, s_Title) : i \in Indexes}
        \cup {s_embed \o <<":">> \o s_x \o <<":">> \o s_title, s_content, s_misc, <<>>}

\* the entries of locale_str's extras, each given or not
CommandExtras == {<<>>} \cup {"command" :> n : n \in {stats, ghost}}
KeyExtras == {<<>>} \cup {"key" :> k : k \in Keys}
IndexExtras == {<<>>} \cup {"index" :> i : i \in Indexes}
OptionExtras == {<<>>} \cup {"option" :> o : o \in {mode, quiet, nope}}

\* context data and command extra that lead to PingDoc, StatsDoc, InfoDoc, no document
DocSources == { <<Command(ping), <<>> >>, <<NoData, "command" :> stats>>,
                <<ContextMenu(info), <<>> >>, <<Command(ping), "command" :> ghost>> }

TranslateCall(message, extras, locale, location, data) ==
    [string |-> LocaleStr(message, extras), locale |-> locale,
     context |-> [location |-> location, data |-> data]]

\* location other, every key, every document
OtherCalls ==
    {TranslateCall(s_text, src[2] @@ k, enUS, "other", src[1]) :
        src \in DocSources, k \in KeyExtras}

\* location choice_name, every index and option, every document
ChoiceCalls ==
    {TranslateCall(s_text, src[2] @@ i @@ o, enUS, "choice_name", src[1]) :
        src \in DocSources, i \in IndexExtras, o \in OptionExtras}

\* the parameter locations, every text, every document
ParameterCalls ==
    {TranslateCall(m, src[2], enUS, loc, src[1]) :
        src \in DocSources, m \in {mode, quiet, nope},
        loc \in {"parameter_name", "parameter_description"}}

\* every location with every context data and command extra
NameCalls ==
    {TranslateCall(mode, c @@ ("key" :> s_content) @@ ("index" :> 0) @@ ("option" :> mode),
                   enUS, loc, d) :
        c \in CommandExtras, d \in Datas, loc \in Locations}

\* every location and extras bag for a command without a document
AbsentCalls ==
    {TranslateCall(mode, ("command" :> ghost) @@ k @@ i @@ o, enUS, loc, NoData) :
        k \in {<<>>, "key" :> s_content, "key" :> EmbedKey(0, s_title),
               "key" :> EmbedKey(0, s_bogus), "key" :> s_embed},
        i \in {<<>>, "index" :> 0}, o \in {<<>>, "option" :> mode}, loc \in Locations}

\* the other locales
LocaleCalls ==
    {TranslateCall(mode, src[2] @@ ("key" :> s_content), L, loc, src[1]) :
        src \in DocSources, L \in {fr, de}, loc \in {"command_name", "other"}}

TranslateCalls ==
    OtherCalls \cup ChoiceCalls \cup ParameterCalls \cup NameCalls \cup AbsentCalls
        \cup LocaleCalls

s_Bob == <<"B", "o", "b">>
s_u == <<"u">>
s_Hey == <<"H", "e", "y", " ", "{", "u", "}">>

\* interaction.locale and interaction.command; the content; the keyword arguments
Interactions ==
    {[locale |-> L, command |-> d] :
        L \in {enUS, fr},
        d \in {NoData, Command(ping), Command(stats), ContextMenu(info), Command(ghost)}}
Contents == {s_Hey, s_text}
StringFormats == {<<>>, s_u :> s_Bob, s_x :> s_Bob}

\* the arguments of one run: a translate call or a translate_content call
Inputs ==
    {[kind |-> "translate", call |-> call] : call \in TranslateCalls}
        \cup {[kind |-> "translate_content", interaction |-> interaction,
               content |-> content, string_formats |-> string_formats] :
                  interaction \in Interactions, content \in Contents,
                  string_formats \in StringFormats}

TranslateStep(t, out) ==
    /\ Store(t, out)
    /\ UNCHANGED <<dir, input, histVars>>
    /\ ret' = [op |-> "translate", self |-> t, args |-> input.call, res |-> out.res,
               nread |-> NRead(cycleReads[t], out.reads), looked |-> out.looked]

Translate(t) ==
    /\ input.kind = "translate"
    /\ TranslateStep(t, translate(cached_locales[t], LOCALE_TO_FILE, cycleReads[t],
                                  input.call.string, input.call.locale, input.call.context))

TranslateContentStep(t, out) ==
    /\ Store(t, out)
    /\ UNCHANGED <<dir, input, histVars>>
    /\ ret' = [op |-> "translate_content", self |-> t,
               args |-> [interaction |-> input.interaction, content |-> input.content,
                         string_formats |-> input.string_formats],
               res |-> out.res, nread |-> NRead(cycleReads[t], out.reads),
               translated |-> out.translated]

TranslateContent(t) ==
    /\ input.kind = "translate_content"
    /\ TranslateContentStep(t, translate_content(cached_locales[t], LOCALE_TO_FILE,
           cycleReads[t], input.interaction, input.content, input.string_formats))

\* the state after construction, with the arguments of the run's translate calls,
\* over the directory whose load completes
InitTranslate ==
    /\ dir = GoodDirectory
    /\ LOCALE_TO_FILE = <<>>
    /\ cached_locales = [t \in Translators |-> <<>>]
    /\ cycleReads = [t \in Translators |-> NoReads]
    /\ loadSnap = [t \in Translators |-> NoSnap]
    /\ lastUnload = NoUnload
    /\ ret = [op |-> "init", self |-> "nobody", args |-> <<>>, res |-> ReturnNone, nread |-> 0]
    /\ input \in Inputs

NextTranslate ==
    \/ \E t \in Translators : Load(t)
    \/ \E t \in Translators : Translate(t)
    \/ \E t \in Translators : TranslateContent(t)

SpecTranslate == InitTranslate /\ [][NextTranslate]_vars

-----------------------------------------------------------------------------
(* Claims about translate and translate_content, checked under SpecTranslate. *)
(* Command and option names are non-empty strings.                            *)

\* the last call is a translate for a locale that has a registered file
Translated == ret.op = "translate" /\ ret.args.locale \in Registered

TExtras == ret.args.string.extras
TLocation == ret.args.context.location
TKey == Get(TExtras, "key")

\* the command name the call gives: the explicit extra, else the context's
GivenName ==
    IF "command" \in DOMAIN TExtras THEN TExtras["command"]
    ELSE ContextName(ret.args.context.data)

\* the parsed file of the call's locale, and the document of the call's command
TLocaleData == FileContent(LOCALE_TO_FILE[ret.args.locale])
TDocExists == GivenName # None /\ GivenName \in DOMAIN TLocaleData
TDoc == TLocaleData[GivenName]
TDocAbsent == GivenName # None /\ GivenName \notin DOMAIN TLocaleData

\* C3 as stated: with a registered locale and a resolvable command name that has
\* no document, translate returns None and raises nothing, at every location and
\* for every extras bag.
C3_AbsentCommandIsNone ==
    (Translated /\ TDocAbsent) => ret.res.kind = "none"

\* C3 as amended: with a registered locale and a resolvable command name that has
\* no document, translate returns None and raises nothing at every location and
\* for every extras bag, except that at location `other` a missing or empty `key`
\* raises ValueError (line 161) before the document is looked up.
C3_AbsentCommandIsNoneUnlessKeyMissing ==
    (Translated /\ TDocAbsent) =>
        IF TLocation = "other" /\ ~Truthy(TKey)
        THEN ret.res.kind = "raise" /\ ret.res.exc = "ValueError" /\ ret.res.site = 161
                /\ ret.looked = None
        ELSE ret.res.kind = "none" /\ ret.looked = GivenName

\* a choice_name call without index and option for a command without a document
C3_Witness ==
    /\ Translated /\ TDocAbsent
    /\ TLocation = "choice_name"
    /\ "index" \notin DOMAIN TExtras /\ "option" \notin DOMAIN TExtras
    /\ ret.res.kind = "none"

\* C4: at location `other`, with a registered locale and an existing document,
\* whatever its embeds hold, embed:<i> and a fields key without exactly two
\* further segments raise InvalidEmbedKey (the ValueError of lines 219, 237,
\* 242), embed:<i>:bogus raises InvalidEmbedField (line 258) and a field type
\* other than name/value raises InvalidFieldType (line 255).
C4_MalformedKeysRejected ==
    (Translated /\ TDocExists /\ TLocation = "other") =>
        /\ TKey \in NoFieldKeys \cup BadFieldsKeys =>
               ret.res.kind = "raise" /\ ret.res.exc = "ValueError"
                   /\ ret.res.site \in {219, 237, 242}
        /\ TKey \in BadFieldKeys =>
               ret.res.kind = "raise" /\ ret.res.exc = "ValueError" /\ ret.res.site = 258
        /\ TKey \in BadTypeKeys =>
               ret.res.kind = "raise" /\ ret.res.exc = "ValueError" /\ ret.res.site = 255

\* the document's text for a key of translate_embeds, None when it is absent
EmbedText(embed, fld) ==
    IF fld = s_title THEN Get(embed, "title")
    ELSE IF fld = s_description THEN Get(embed, "description")
    ELSE IF fld = s_footer
    THEN (IF "footer" \in DOMAIN embed THEN Get(embed["footer"], "text") ELSE None)
    ELSE (IF "author" \in DOMAIN embed THEN Get(embed["author"], "name") ELSE None)

FieldText(field, ty) == IF ty = s_name THEN Get(field, "name") ELSE Get(field, "value")

HasEmbed(doc, i) == "embeds" \in DOMAIN doc /\ i < Len(doc["embeds"])
HasField(doc, i, j) ==
    /\ HasEmbed(doc, i)
    /\ "fields" \in DOMAIN doc["embeds"][i + 1]
    /\ j < Len(doc["embeds"][i + 1]["fields"])

\* C5: at location `other`, for every key translate_embeds builds whose indices
\* are in range of the document's lists, translate returns the document's field:
\* embeds[i].title, .description, .footer.text, .author.name, .fields[j].name,
\* .fields[j].value, None when that field is absent; it raises nothing.
C5_SynthesizedKeysResolve ==
    (Translated /\ TDocExists /\ TLocation = "other") =>
        /\ \A i \in Indexes, fld \in SimpleFields :
               (TKey = EmbedKey(i, fld) /\ HasEmbed(TDoc, i)) =>
                   ret.res = ReturnOpt(EmbedText(TDoc["embeds"][i + 1], fld))
        /\ \A i \in Indexes, j \in Indexes, ty \in FieldTypes :
               (TKey = FieldKey(i, j, ty) /\ HasField(TDoc, i, j)) =>
                   ret.res = ReturnOpt(FieldText(TDoc["embeds"][i + 1]["fields"][j + 1], ty))

\* a field's value found through embed:<i>:fields:<j>:value
C5_Witness ==
    /\ Translated /\ TDocExists /\ TLocation = "other"
    /\ \E i \in Indexes, j \in Indexes :
           TKey = FieldKey(i, j, s_value) /\ HasField(TDoc, i, j)
    /\ ret.res.kind = "return"

\* C6: with a registered locale, the name translate looks up is the `command`
\* extra whenever it is given, also when the context data yields a name; the
\* context's name is used only without the extra; with neither, translate
\* raises the ValueError of line 150 (MissingCommandName) and looks nothing up.
C6_ExplicitCommandWins ==
    Translated =>
        /\ ret.looked # None => ret.looked = GivenName
        /\ GivenName = None =>
               ret.res.kind = "raise" /\ ret.res.exc = "ValueError" /\ ret.res.site = 150
                   /\ ret.looked = None
        /\ (GivenName # None /\ ~(TLocation = "other" /\ ~Truthy(TKey))) =>
               ret.looked = GivenName

\* the extra names one command, the context another, and the extra's document answers
C6_Witness ==
    /\ Translated
    /\ "command" \in DOMAIN TExtras
    /\ TExtras["command"] = stats
    /\ ContextName(ret.args.context.data) = ping
    /\ TLocation = "command_name"
    /\ ret.looked = stats
    /\ ret.res = Return(StatsDoc["name"])

\* the choices list of the document for the call's option, <<>> when there is none
TChoices ==
    IF "options" \in DOMAIN TDoc /\ "option" \in DOMAIN TExtras
           /\ TExtras["option"] \in DOMAIN TDoc["options"]
           /\ "choices" \in DOMAIN TDoc["options"][TExtras["option"]]
    THEN TDoc["options"][TExtras["option"]]["choices"]
    ELSE <<>>

\* C7: at location choice_name, with a registered locale and an existing
\* document, translate raises the ValueError of lines 198/202
\* (MissingChoiceMetadata) when `index` or `option` is missing; with both given
\* (index 0 included) it returns None when the document has no choices for the
\* option, and the entry at position index of the choices otherwise.
C7_ChoiceName ==
    (Translated /\ TDocExists /\ TLocation = "choice_name") =>
        IF "index" \notin DOMAIN TExtras \/ "option" \notin DOMAIN TExtras
        THEN ret.res.kind = "raise" /\ ret.res.exc = "ValueError"
                /\ ret.res.site \in {198, 202}
        ELSE /\ TChoices = <<>> => ret.res.kind = "none"
             /\ TExtras["index"] < Len(TChoices) =>
                    ret.res = Return(TChoices[TExtras["index"] + 1])

\* index 0 given, and the first choice returned
C7_Witness ==
    /\ Translated /\ TDocExists /\ TLocation = "choice_name"
    /\ "index" \in DOMAIN TExtras /\ "option" \in DOMAIN TExtras
    /\ TExtras["index"] = 0
    /\ TChoices # <<>>
    /\ ret.res = Return(TChoices[1])

\* C8: translate_content returns the content unchanged when the interaction's
\* translate gives None or an empty string, with or without format arguments;
\* when it gives a translation, translate_content returns it, formatted with the
\* keyword arguments if and only if there are any.
C8_ContentFallback ==
    ret.op = "translate_content" =>
        /\ (ret.translated.kind = "none"
               \/ (ret.translated.kind = "return" /\ ret.translated.val = <<>>)) =>
               ret.res = Return(ret.args.content)
        /\ (ret.translated.kind = "return" /\ ret.translated.val # <<>>) =>
               IF DOMAIN ret.args.string_formats # {}
               THEN ret.res = Format(ret.translated.val, ret.args.string_formats)
               ELSE ret.res = Return(ret.translated.val)

\* a translation with a replacement field, returned unformatted without arguments
C8_Witness ==
    /\ ret.op = "translate_content"
    /\ ret.translated.kind = "return"
    /\ DOMAIN ret.args.string_formats = {}
    /\ ret.res = Return(PingDoc["content"])

\* a translation formatted with the keyword arguments
C8_WitnessFormatted ==
    /\ ret.op = "translate_content"
    /\ ret.translated.kind = "return"
    /\ DOMAIN ret.args.string_formats # {}
    /\ ret.res.kind = "return"
    /\ ret.res.val # ret.translated.val

\* C9: at location `other`, for a well-formed embed key with index 0, translate
\* returns None and raises no IndexError when the document has no usable embeds:
\* when `embeds` is absent and when it is an empty list.
C9_NoEmbedsIsNone ==
    (Translated /\ TDocExists /\ TLocation = "other"
        /\ (\E fld \in SimpleFields : TKey = EmbedKey(0, fld))
        /\ ("embeds" \notin DOMAIN TDoc \/ Len(TDoc["embeds"]) = 0)) =>
            ret.res.kind = "none"

\* the half of C9 the code has: no `embeds` entry
C9_AbsentEmbedsIsNone ==
    (Translated /\ TDocExists /\ TLocation = "other"
        /\ (\E fld \in SimpleFields : TKey = EmbedKey(0, fld))
        /\ "embeds" \notin DOMAIN TDoc) =>
            ret.res.kind = "none"

\* C10: at location parameter_name, with a registered locale and an existing
\* document, translate returns document.name whatever the options and the text
\* are; parameter_description alone goes through document.options[text], None
\* when the option is absent.
C10_ParameterNameIsDocumentName ==
    (Translated /\ TDocExists) =>
        /\ TLocation = "parameter_name" => ret.res = ReturnOpt(Get(TDoc, "name"))
        /\ TLocation = "parameter_description" =>
               IF "options" \in DOMAIN TDoc /\ ret.args.string.message \in DOMAIN TDoc["options"]
               THEN ret.res = ReturnOpt(Get(TDoc["options"][ret.args.string.message],
                                            "description"))
               ELSE ret.res.kind = "none"

\* parameter_name for a text that is an option with a name of its own
C10_Witness ==
    /\ Translated /\ TDocExists
    /\ TLocation = "parameter_name"
    /\ "options" \in DOMAIN TDoc
    /\ ret.args.string.message \in DOMAIN TDoc["options"]
    /\ Get(TDoc["options"][ret.args.string.message], "name") # Get(TDoc, "name")
    /\ ret.res = Return(TDoc["name"])

-----------------------------------------------------------------------------
(* Claim about the caches of all translators and the shared file index,     *)
(* checked under Spec.                                                        *)

\* every locale a translator has cached has a registered file
CacheWithinIndex(t) == DOMAIN cached_locales[t] \subseteq Registered

\* the last call is a load() that returned
LoadSucceeded == ret.op = "load" /\ ret.res.kind # "raise"

\* C11: in every reachable state, whichever translators made the calls and
\* whether or not the calls failed, every locale in a translator's cache is
\* registered in the file index; and right after a load() that succeeded, the
\* loading translator's cache and the file index hold the same locales.
C11_CacheAgreesWithIndex ==
    /\ \A t \in Translators : CacheWithinIndex(t)
    /\ LoadSucceeded => DOMAIN cached_locales[ret.self] = Registered

\* the half of C11 about the translator that made the last call
C11_CallerCacheWithinIndex ==
    ret.self \in Translators => CacheWithinIndex(ret.self)

\* the half of C11 about a load() that succeeded
C11_LoadedCacheIsIndex ==
    LoadSucceeded => DOMAIN cached_locales[ret.self] = Registered

====
